---- MODULE Spec2Model ----
(***************************************************************************)
(* A model of the command line driver of Mergiraf (src/bin/mergiraf.rs),   *)
(* of the cascading conflict resolution of the library (src/lib.rs) and    *)
(* of the library functions the driver relies on.                          *)
(*                                                                         *)
(* One run of the program executes one command.  `solve` reads a file      *)
(* with conflict markers and calls resolve_merge_cascading; `merge` calls  *)
(* do_merge, which runs the merge on a worker thread and waits for it on   *)
(* a one-shot channel, and falls back to `git merge-file`.                 *)
(***************************************************************************)
EXTENDS Integers, Sequences, FiniteSets, TLC

VARIABLES
    cmd,            \* the subcommand of this run: "merge" or "solve"
    main_result,    \* the Result real_main returned to main, None while it runs
    \* ---- solve ----
    spc,            \* position of the solve command
    fname,          \* the path of the conflicts file
    keep,           \* the --keep flag
    original_conflict_contents, \* the contents read from the conflicts file
    parsed_merge,   \* outcome of ParsedMerge::parse
    solves,         \* the candidate vector of resolve_merge_cascading
    ran,            \* the strategies attempted so far, in order
    best_solve,     \* the candidate select_best_solve ranked first
    postprocessed,  \* the Result returned by resolve_merge_cascading
    conflicts_file, \* contents of the conflicts file on disk
    orig_file,      \* contents of <file>.orig on disk
    stdout_text,    \* what the solve command printed on standard output
    \* ---- merge ----
    env_mergiraf,   \* the environment variable `mergiraf`
    env_legacy,     \* the environment variable `MERGIRAF_DISABLE`
    timeout,        \* --timeout, in milliseconds
    git,            \* --git
    output,         \* --output: None or Some(path)
    mpc,            \* position of the merge command (the main thread)
    wpc,            \* position of the worker thread of do_merge
    spawned,        \* number of threads spawned so far
    w_res,          \* the value of res() in the worker
    chan,           \* the message in the one-shot channel, None when empty
    rx_dropped,     \* the receiving end of the channel was dropped
    send_result,    \* what tx.send returned to the worker
    dm_result,      \* the Result returned by do_merge
    outputs,        \* the writes of the merge result, in order
    \* ---- FileCriterion::matches ----
    criterion,      \* the FileCriterion
    path,           \* the path given to matches
    matched,        \* what matches returned, None before the call
    \* ---- detection of duplicate signatures ----
    called,         \* the function called
    given,          \* the merge result it works on
    observed,       \* what the parses made during the call gave
    returned,       \* the merge result it returned, None before the call
    \* ---- the line-based merge ----
    contents_base,  \* the three texts to merge
    contents_left,
    contents_right,
    line_merged,    \* the merge result returned, None before the call
    \* ---- the structured merge ----
    base_children,  \* the children of the parent node in Base,
    left_children,  \*   in Left
    right_children, \*   and in Right
    commutative,    \* the kind of the parent is registered as commutative
    class_mapping,  \* the leader of every node, None before it is computed
    merged_tree,    \* the merged tree and its triples, None before the merge
    removed,        \* the trees of remove_nodes_in_tree, None before the call
    \* ---- the main loop of minimize ----
    max_steps,      \* --max-steps
    max_failures,   \* --max-failures
    lpc,            \* position of minimize
    step,           \* the local step
    failures,       \* the local failures of the current step
    progress_made,  \* the local progress_made
    current_best,   \* the directory of the best test case so far
    attempts,       \* the attempts made so far, in order
    final_output    \* the directory copied to the output, None before the copy

solveVars == <<spc, fname, keep, original_conflict_contents, parsed_merge, solves, ran, best_solve,
               postprocessed, conflicts_file, orig_file, stdout_text>>
mainVars == <<env_mergiraf, env_legacy, timeout, git, output, mpc, spawned,
              dm_result, outputs>>
workerVars == <<wpc, w_res, send_result>>
mergeVars == <<mainVars, workerVars, chan, rx_dropped>>
programVars == <<cmd, main_result, solveVars, mergeVars>>
criterionVars == <<criterion, path, matched>>
detectionVars == <<called, given, observed, returned>>
lineVars == <<contents_base, contents_left, contents_right, line_merged>>
treeVars == <<base_children, left_children, right_children, commutative,
              class_mapping, merged_tree, removed>>
loopVars == <<max_steps, max_failures, lpc, step, failures, progress_made,
              current_best, attempts, final_output>>
libVars == <<criterionVars, detectionVars, lineVars, treeVars, loopVars>>
vars == <<programVars, libVars>>

----------------------------------------------------------------------------
(* Bounds of the model *)

\* the largest number of conflicts a merge result of the model holds
MaxConflicts == 2
\* the largest conflict mass a merge result of the model holds
MaxMass == 3

----------------------------------------------------------------------------
(* Values *)

FROM_PARSED_ORIGINAL == "from_parsed_original"
LINE_BASED_METHOD == "line_based"
STRUCTURED_RESOLUTION_METHOD == "structured_resolution"
FULLY_STRUCTURED_METHOD == "fully_structured"

PARSED_MERGE_DIFF2_DETECTED == "diff2 conflict markers detected"
NO_SOLUTION == "Could not generate any solution"
NO_GIT_SIDES == "Could not retrieve conflict sides from Git."

\* Result<T, String>; "None" stands for a result not produced yet
None == [tag |-> "None"]
\* a panic: of the thread that called, or of the process when it is the main thread
Panicked == [tag |-> "Panicked"]
Ok(v) == [tag |-> "Ok", val |-> v]
Err(e) == [tag |-> "Err", err |-> e]
is_ok(r) == r.tag = "Ok"
is_err(r) == r.tag = "Err"

\* struct MergeResult
MergeResult(c, n, m, meth, issues) ==
    [contents |-> c, conflict_count |-> n, conflict_mass |-> m,
     method |-> meth, has_additional_issues |-> issues]

\* The merge results structured_merge can return for a method: any number of
\* conflicts and any mass, a text without conflicts having mass 0.
StructuredResults(meth, c) ==
    { MergeResult(c, n, m, meth, i) :
        <<n, m, i>> \in { t \in (0..MaxConflicts) \X (0..MaxMass) \X BOOLEAN :
                            t[1] = 0 => t[2] = 0 } }

\* The outcomes of ParsedMerge::parse: an error (diff2 markers, or another
\* one), or a parsed merge with its conflict count and mass.
ParseOutcomes ==
    { Err(PARSED_MERGE_DIFF2_DETECTED), Err("unparseable conflict markers") }
    \cup { Ok([conflict_count |-> t[1], conflict_mass |-> t[2]]) :
            t \in { u \in (0..MaxConflicts) \X (0..MaxMass) : u[1] = 0 => u[2] = 0 } }

\* The file names of the model and LangProfile::detect_from_filename on them
FileNames == { "conflicted.py", "notes.unknown" }
detect_from_filename(f) == IF f = "conflicted.py" THEN Ok("Python") ELSE None

----------------------------------------------------------------------------
(* select_best_solve *)

\* slice::sort_by_key is a stable sort; it is computed here by inserting the
\* elements in order, each one after every element whose key is not larger.
RECURSIVE insert_by_mass(_, _)
insert_by_mass(sorted, x) ==
    IF sorted = <<>> THEN <<x>>
    ELSE IF Head(sorted).conflict_mass <= x.conflict_mass
         THEN <<Head(sorted)>> \o insert_by_mass(Tail(sorted), x)
         ELSE <<x>> \o sorted

RECURSIVE sort_by_key(_)
sort_by_key(s) ==
    IF s = <<>> THEN <<>>
    ELSE insert_by_mass(sort_by_key(SubSeq(s, 1, Len(s) - 1)), s[Len(s)])

\* a find_or_first that takes the first candidate whatever its flag
first_candidate(s) == s[1]

\* Itertools::find_or_first with the predicate !solve.has_additional_issues
find_or_first(s) ==
    IF \E i \in 1..Len(s) : ~s[i].has_additional_issues
    THEN s[CHOOSE i \in 1..Len(s) :
               /\ ~s[i].has_additional_issues
               /\ \A j \in 1..(i - 1) : s[j].has_additional_issues]
    ELSE s[1]

\* the candidate ranked first (the local best_solve), for a non-empty vector
ranked_first(s) == find_or_first(sort_by_key(s))

\* a select_best_solve that lets the rendering of the original conflicts through
check_best_unchecked(best) == Ok(best)

\* what select_best_solve returns from the candidate ranked first
check_best(best) ==
    IF best.method = FROM_PARSED_ORIGINAL THEN Err(NO_SOLUTION) ELSE Ok(best)

select_best_solve(s) ==
    IF s = <<>> THEN Err(NO_SOLUTION) ELSE check_best(ranked_first(s))

----------------------------------------------------------------------------
(* The solve command *)

\* The texts of the model are named; a text is kept with LF line endings
\* under its name, and with CRLF line endings under the name below.
with_cr_lf(text) ==
    CASE text = "conflicts" -> "conflicts\r\n"
      [] text = "resolved" -> "resolved\r\n"
      [] text = "merged" -> "merged\r\n"
      [] OTHER -> text

\* the text uses CRLF line endings
has_cr_lf(text) == text \in { "conflicts\r\n", "resolved\r\n", "merged\r\n" }

\* settings::normalize_to_lf: CRLF line endings become LF
normalize_to_lf(text) ==
    CASE text = "conflicts\r\n" -> "conflicts"
      [] text = "resolved\r\n" -> "resolved"
      [] text = "merged\r\n" -> "merged"
      [] OTHER -> text

\* settings::imitate_cr_lf_from_input: the line endings of the input are
\* given to the output
imitate_cr_lf_from_input(input_contents, output_contents) ==
    IF has_cr_lf(input_contents) THEN with_cr_lf(output_contents) ELSE output_contents

InitSolve ==
    /\ spc = "read"
    /\ fname \in FileNames
    /\ keep \in BOOLEAN
    /\ original_conflict_contents = None
    /\ parsed_merge = None
    /\ solves = <<>>
    /\ ran = <<>>
    /\ best_solve = None
    /\ postprocessed = None
    /\ conflicts_file \in { "conflicts", with_cr_lf("conflicts") }
    /\ orig_file = "absent"
    /\ stdout_text = ""

IdleSolve ==
    /\ spc = "idle"
    /\ fname = "conflicted.py"
    /\ keep = FALSE
    /\ original_conflict_contents = None
    /\ parsed_merge = None
    /\ solves = <<>>
    /\ ran = <<>>
    /\ best_solve = None
    /\ postprocessed = None
    /\ conflicts_file = "conflicts"
    /\ orig_file = "absent"
    /\ stdout_text = ""

\* main: exit(code) for Ok(code), exit(-1) for an Err of real_main
Exited(code) == [tag |-> "Exited", code |-> code]
main_exit(r) == IF is_ok(r) THEN Exited(r.val) ELSE Exited(-1)

\* the exit status of the process, None until main exits; a process whose
\* main thread panicked exits with 101
exit_code ==
    IF main_result = None THEN None
    ELSE IF main_result = Panicked THEN Exited(101)
    ELSE main_exit(main_result)

\* real_main, Solve: read_file_to_string(&fname_conflicts)?
solve_read ==
    /\ cmd = "solve" /\ spc = "read"
    /\ \E readable \in BOOLEAN :
        IF readable
        THEN /\ spc' = "detect"
             /\ original_conflict_contents' = conflicts_file
             /\ UNCHANGED main_result
        ELSE /\ spc' = "exit"
             /\ main_result' = Err("Could not read")
             /\ UNCHANGED original_conflict_contents
    /\ UNCHANGED <<libVars, mergeVars, cmd, stdout_text, fname, keep, parsed_merge, solves, ran,
                   best_solve, postprocessed, conflicts_file, orig_file>>

\* a resolve_merge_cascading that does not look at the language first
cascading_detect_unchecked ==
    /\ cmd = "solve" /\ spc = "detect"
    /\ spc' = "parse"
    /\ UNCHANGED <<libVars, mergeVars, cmd, main_result, stdout_text, fname, keep, original_conflict_contents, parsed_merge,
                   solves, ran, best_solve, postprocessed, conflicts_file, orig_file>>

\* resolve_merge_cascading: LangProfile::detect_from_filename(..).ok_or_else(..)?
cascading_detect ==
    /\ cmd = "solve" /\ spc = "detect"
    /\ IF detect_from_filename(fname) = None
       THEN /\ postprocessed' = Err(<<"Could not find a supported language for", fname>>)
            /\ spc' = "match"
       ELSE /\ spc' = "parse"
            /\ UNCHANGED postprocessed
    /\ UNCHANGED <<libVars, mergeVars, cmd, main_result, stdout_text, fname, keep, original_conflict_contents, parsed_merge, solves,
                   ran, best_solve, conflicts_file, orig_file>>

\* resolve_merge_cascading: match ParsedMerge::parse(merge_contents, &settings)
cascading_parse ==
    /\ cmd = "solve" /\ spc = "parse"
    /\ \E p \in ParseOutcomes :
        /\ parsed_merge' = p
        /\ spc' = IF is_ok(p) THEN "resolve" ELSE "git"
    /\ ran' = Append(ran, "parse")
    /\ UNCHANGED <<libVars, mergeVars, cmd, main_result, stdout_text, fname, keep, original_conflict_contents, solves, best_solve,
                   postprocessed, conflicts_file, orig_file>>

\* a resolve_merge_cascading that makes every in-place resolution a candidate
cascading_resolve_ranked ==
    /\ cmd = "solve" /\ spc = "resolve"
    /\ \E r \in { Err("structured resolution failed") }
                \cup { Ok(s) : s \in StructuredResults(STRUCTURED_RESOLUTION_METHOD, "resolved") } :
        solves' = IF is_ok(r) THEN Append(solves, r.val) ELSE solves
    /\ spc' = "render"
    /\ ran' = Append(ran, "resolve")
    /\ UNCHANGED <<libVars, mergeVars, cmd, main_result, stdout_text, fname, keep,
                   original_conflict_contents, parsed_merge, best_solve, postprocessed,
                   conflicts_file, orig_file>>

\* resolve_merge_cascading: match resolve_merge(&parsed_merge, ..)
cascading_resolve ==
    /\ cmd = "solve" /\ spc = "resolve"
    /\ \E r \in { Err("structured resolution failed") }
                \cup { Ok(s) : s \in StructuredResults(STRUCTURED_RESOLUTION_METHOD, "resolved") } :
        IF is_ok(r) /\ r.val.conflict_count = 0
        THEN /\ postprocessed' = Ok(r.val)
             /\ spc' = "match"
             /\ UNCHANGED solves
        ELSE /\ solves' = IF is_ok(r) THEN Append(solves, r.val) ELSE solves
             /\ spc' = "render"
             /\ UNCHANGED postprocessed
    /\ ran' = Append(ran, "resolve")
    /\ UNCHANGED <<libVars, mergeVars, cmd, main_result, stdout_text, fname, keep, original_conflict_contents, parsed_merge,
                   best_solve, conflicts_file, orig_file>>

\* the candidate built from the parsed merge itself
rendered_from_parsed(pm) ==
    MergeResult("conflicts", pm.conflict_count, pm.conflict_mass,
                FROM_PARSED_ORIGINAL, FALSE)

\* resolve_merge_cascading: solves.push(rendered_from_parsed)
cascading_render ==
    /\ cmd = "solve" /\ spc = "render"
    /\ solves' = Append(solves, rendered_from_parsed(parsed_merge.val))
    /\ ran' = Append(ran, "render")
    /\ spc' = "git"
    /\ UNCHANGED <<libVars, mergeVars, cmd, main_result, stdout_text, fname, keep, original_conflict_contents, parsed_merge,
                   best_solve, postprocessed, conflicts_file, orig_file>>

\* structured_merge_from_git_revisions, given the three extract_revision
\* results and the result of structured_merge on the extracted revisions
structured_merge_from_git_revisions(rev_base, rev_left, rev_right, merged) ==
    IF is_ok(rev_base) /\ is_ok(rev_left) /\ is_ok(rev_right)
    THEN merged
    ELSE Err(NO_GIT_SIDES)

\* resolve_merge_cascading: match structured_merge_from_git_revisions(..)
cascading_git ==
    /\ cmd = "solve" /\ spc = "git"
    /\ \E rb, rl, rr \in { Ok("revision"), Err("not in a conflicted state in the index") } :
       \E m \in { Err("structured merge failed") }
                \cup { Ok(s) : s \in StructuredResults(FULLY_STRUCTURED_METHOD, "merged") } :
        LET r == structured_merge_from_git_revisions(rb, rl, rr, m) IN
        /\ solves' = IF is_ok(r) THEN Append(solves, r.val) ELSE solves
        /\ ran' = Append(ran, IF is_ok(rb) /\ is_ok(rl) /\ is_ok(rr)
                              THEN "git_merge" ELSE "git_extract_failed")
    /\ spc' = "select"
    /\ UNCHANGED <<libVars, mergeVars, cmd, main_result, stdout_text, fname, keep, original_conflict_contents, parsed_merge,
                   best_solve, postprocessed, conflicts_file, orig_file>>

\* resolve_merge_cascading: let best_solve = select_best_solve(solves)?; Ok(best_solve)
cascading_select ==
    /\ cmd = "solve" /\ spc = "select"
    /\ best_solve' = IF solves = <<>> THEN None ELSE ranked_first(solves)
    /\ postprocessed' = select_best_solve(solves)
    /\ spc' = "match"
    /\ UNCHANGED <<libVars, mergeVars, cmd, main_result, stdout_text, fname, keep, original_conflict_contents, parsed_merge, solves,
                   ran, conflicts_file, orig_file>>

\* real_main, Solve: match postprocessed, up to the first write
solve_match ==
    /\ cmd = "solve" /\ spc = "match"
    /\ IF is_ok(postprocessed) /\ postprocessed.val.method = "original"
       THEN /\ spc' = "exit" /\ main_result' = Ok(1)
            /\ UNCHANGED <<stdout_text, conflicts_file>>
       ELSE IF is_ok(postprocessed)
       THEN IF keep
            THEN /\ stdout_text' = imitate_cr_lf_from_input(original_conflict_contents,
                                                            postprocessed.val.contents)
                 /\ spc' = "exit" /\ main_result' = Ok(0)
                 /\ UNCHANGED conflicts_file
            ELSE \E written \in BOOLEAN :
                   IF written
                   THEN /\ conflicts_file' = postprocessed.val.contents
                        /\ spc' = "write_orig"
                        /\ UNCHANGED <<stdout_text, main_result>>
                   ELSE /\ spc' = "exit"
                        /\ main_result' = Err("Could not write")
                        /\ UNCHANGED <<stdout_text, conflicts_file>>
       ELSE /\ spc' = "exit" /\ main_result' = Ok(1)
            /\ UNCHANGED <<stdout_text, conflicts_file>>
    /\ UNCHANGED <<libVars, mergeVars, cmd, fname, keep, original_conflict_contents, parsed_merge, solves, ran, best_solve,
                   postprocessed, orig_file>>

\* real_main, Solve: write_string_to_file(&(fname_conflicts + ".orig"), ..)?; 0
solve_write_orig ==
    /\ cmd = "solve" /\ spc = "write_orig"
    /\ \E written \in BOOLEAN :
        IF written
        THEN /\ orig_file' = normalize_to_lf(original_conflict_contents)
             /\ main_result' = Ok(0)
        ELSE /\ main_result' = Err("Could not write")
             /\ UNCHANGED orig_file
    /\ spc' = "exit"
    /\ UNCHANGED <<libVars, mergeVars, cmd, stdout_text, fname, keep, original_conflict_contents, parsed_merge, solves, ran,
                   best_solve, postprocessed, conflicts_file>>

NextSolve ==
    \/ solve_read
    \/ cascading_detect
    \/ cascading_parse
    \/ cascading_resolve
    \/ cascading_render
    \/ cascading_git
    \/ cascading_select
    \/ solve_match
    \/ solve_write_orig

----------------------------------------------------------------------------
(* The merge command *)

DISABLING_ENV_VAR == "mergiraf"
DISABLING_ENV_VAR_LEGACY == "MERGIRAF_DISABLE"
TOO_LONG == "structured merge took too long, falling back to Git"

\* The states of an environment variable: not set, or set to a string, or
\* set to bytes that are not valid Unicode.
EnvStates == { "unset", "not_unicode", "set:", "set:0", "set:1" }

\* std::env::var: Ok(value) for a variable set to valid Unicode, else Err
env_var(state) ==
    CASE state = "unset" -> Err("NotPresent")
      [] state = "not_unicode" -> Err("NotUnicode")
      [] state = "set:" -> Ok("")
      [] state = "set:0" -> Ok("0")
      [] state = "set:1" -> Ok("1")

\* a test of the legacy variable that accepts the empty value too
is_anything(v) == TRUE

\* the two closures given to Result::is_ok_and
is_zero(v) == v = "0"

is_not_empty(v) == v /= ""

\* real_main, Merge: let mergiraf_disabled = ..
mergiraf_disabled(new, legacy) ==
    \/ (is_ok(env_var(new)) /\ is_zero(env_var(new).val))
    \/ (is_ok(env_var(legacy)) /\ is_not_empty(env_var(legacy).val))

\* the values of --timeout of the model: 0 (no limit) and the default
DEFAULT_TIMEOUT == 10000
Timeouts == { 0, DEFAULT_TIMEOUT }

\* --output conflicts with --git
OutputArgs == { <<FALSE, None>>, <<TRUE, None>>, <<FALSE, Ok("out_path")>> }

InitMerge ==
    /\ env_mergiraf \in EnvStates
    /\ env_legacy \in EnvStates
    /\ timeout \in Timeouts
    /\ \E a \in OutputArgs : git = a[1] /\ output = a[2]
    /\ mpc = "start"
    /\ wpc = "unspawned"
    /\ spawned = 0
    /\ w_res = None
    /\ chan = None
    /\ rx_dropped = FALSE
    /\ send_result = None
    /\ dm_result = None
    /\ outputs = <<>>

IdleMerge ==
    /\ env_mergiraf = "unset"
    /\ env_legacy = "unset"
    /\ timeout = 0
    /\ git = FALSE
    /\ output = None
    /\ mpc = "idle"
    /\ wpc = "unspawned"
    /\ spawned = 0
    /\ w_res = None
    /\ chan = None
    /\ rx_dropped = FALSE
    /\ send_result = None
    /\ dm_result = None
    /\ outputs = <<>>

\* real_main, Merge, up to the call of do_merge; do_merge up to the wait:
\* the channel is created and the worker thread is spawned
merge_start ==
    /\ cmd = "merge" /\ mpc = "start"
    /\ IF mergiraf_disabled(env_mergiraf, env_legacy)
       THEN /\ mpc' = "fallback"
            /\ UNCHANGED <<wpc, spawned>>
       ELSE /\ mpc' = "wait"
            /\ wpc' = "read_base"
            /\ spawned' = spawned + 1
    /\ UNCHANGED <<libVars, cmd, main_result, solveVars, env_mergiraf, env_legacy, timeout,
                   git, output, w_res, chan, rx_dropped, send_result, dm_result,
                   outputs>>

\* the next position of the worker after reading a revision
after_read(pc) ==
    CASE pc = "read_base" -> "read_left"
      [] pc = "read_left" -> "read_right"
      [] pc = "read_right" -> "merge"

\* worker: read_file_to_string(fname)? of the base, left and right revisions
worker_read ==
    /\ cmd = "merge" /\ exit_code = None
    /\ wpc \in { "read_base", "read_left", "read_right" }
    /\ \E readable \in BOOLEAN :
        IF readable
        THEN /\ wpc' = after_read(wpc)
             /\ UNCHANGED w_res
        ELSE /\ w_res' = Err("Could not read")
             /\ wpc' = "send"
    /\ UNCHANGED <<libVars, cmd, main_result, solveVars, mainVars, chan, rx_dropped, send_result>>

\* a worker that reports a clean merge whatever the number of conflicts
worker_outcome_clean(conflict_count) ==
    Ok([code |-> 0, conflict_count |-> conflict_count])

\* the (exit code, output) pair the worker builds from a merge result
worker_outcome(conflict_count) ==
    IF conflict_count > 0
    THEN Ok([code |-> 1, conflict_count |-> conflict_count])
    ELSE Ok([code |-> 0, conflict_count |-> conflict_count])

\* worker: line_merge_and_structured_resolution(..) and the result of res();
\* line_based_merge panics when ParsedMerge::parse rejects the text diffy
\* produced (the `expect` of line_based.rs:62-63), and the sender is then
\* dropped by the unwinding without a message
worker_merge ==
    /\ cmd = "merge" /\ exit_code = None
    /\ wpc = "merge"
    /\ \E parsed \in BOOLEAN :
        IF parsed
        THEN /\ \E n \in 0..MaxConflicts : w_res' = worker_outcome(n)
             /\ wpc' = "send"
        ELSE /\ wpc' = "panicked"
             /\ UNCHANGED w_res
    /\ UNCHANGED <<libVars, cmd, main_result, solveVars, mainVars, chan, rx_dropped, send_result>>

\* oneshot Sender::send: the message is handed back in an Err when the
\* receiver was dropped, and is stored in the channel otherwise
send(msg) ==
    IF rx_dropped
    THEN [chan |-> chan, result |-> Err("SendError")]
    ELSE [chan |-> msg, result |-> Ok("sent")]

\* a worker that unwraps the result of the send, and so panics when the
\* receiver is gone
worker_send_unwrap ==
    /\ cmd = "merge" /\ exit_code = None
    /\ wpc = "send"
    /\ chan' = send(w_res).chan
    /\ send_result' = send(w_res).result
    /\ wpc' = IF is_ok(send(w_res).result) THEN "finished" ELSE "panicked"
    /\ UNCHANGED <<libVars, cmd, main_result, solveVars, mainVars, w_res, rx_dropped>>

\* worker: let _ = tx.send(res());
worker_send ==
    /\ cmd = "merge" /\ exit_code = None
    /\ wpc = "send"
    /\ chan' = send(w_res).chan
    /\ send_result' = send(w_res).result
    /\ wpc' = "finished"
    /\ UNCHANGED <<libVars, cmd, main_result, solveVars, mainVars, w_res, rx_dropped>>

\* a wait that reports a clean merge when the deadline passes
recv_timeout_clean(ch) ==
    IF ch /= None THEN ch ELSE Ok([code |-> 0, conflict_count |-> 0])

\* what rx.recv_timeout(timeout).map_err(..)? makes do_merge return: the
\* message when there is one, the error when the deadline passes first
recv_timeout(ch) ==
    IF ch /= None THEN ch ELSE Err(TOO_LONG)

\* a do_merge that waits with a deadline whatever the timeout
do_merge_recv_with_deadline ==
    /\ cmd = "merge" /\ mpc = "wait"
    /\ timeout = 0
    /\ dm_result' = recv_timeout(chan)
    /\ mpc' = "returned"
    /\ rx_dropped' = TRUE
    /\ UNCHANGED <<libVars, cmd, main_result, solveVars, env_mergiraf, env_legacy, timeout,
                   git, output, spawned, outputs, workerVars, chan>>

\* the sender was dropped without a message: the receiver sees the channel
\* disconnected (RecvError, RecvTimeoutError::Disconnected)
disconnected == chan = None /\ wpc \in { "finished", "panicked" }

\* do_merge: rx.recv().unwrap() when the timeout is zero; the unwrap panics
\* on a disconnected channel
do_merge_recv ==
    /\ cmd = "merge" /\ mpc = "wait"
    /\ timeout = 0
    /\ IF chan /= None
       THEN /\ dm_result' = chan
            /\ mpc' = "returned"
            /\ UNCHANGED main_result
       ELSE /\ disconnected
            /\ mpc' = "exit"
            /\ main_result' = Panicked
            /\ UNCHANGED dm_result
    /\ rx_dropped' = TRUE
    /\ UNCHANGED <<libVars, cmd, solveVars, env_mergiraf, env_legacy, timeout,
                   git, output, spawned, outputs, workerVars, chan>>

\* do_merge: rx.recv_timeout(timeout) when the timeout is not zero; the
\* step is the arrival of the message, the expiry of the deadline, or the
\* disconnection of the channel, which reaches unreachable!()
do_merge_recv_timeout ==
    /\ cmd = "merge" /\ mpc = "wait"
    /\ timeout /= 0
    /\ IF disconnected
       THEN /\ mpc' = "exit"
            /\ main_result' = Panicked
            /\ UNCHANGED dm_result
       ELSE /\ dm_result' = recv_timeout(chan)
            /\ mpc' = "returned"
            /\ UNCHANGED main_result
    /\ rx_dropped' = TRUE
    /\ UNCHANGED <<libVars, cmd, solveVars, env_mergiraf, env_legacy, timeout,
                   git, output, spawned, outputs, workerVars, chan>>

\* where real_main writes the output of do_merge
destination(out, g) ==
    IF out /= None THEN "output_file" ELSE IF g THEN "left_file" ELSE "stdout"

\* real_main, Merge: match do_merge(..), the arm Ok((return_code, merge_output))
merge_deliver ==
    /\ cmd = "merge" /\ mpc = "returned"
    /\ is_ok(dm_result)
    /\ \E written \in BOOLEAN :
        IF written \/ destination(output, git) = "stdout"
        THEN /\ outputs' = Append(outputs, [dest |-> destination(output, git),
                                            from |-> "worker",
                                            conflict_count |-> dm_result.val.conflict_count])
             /\ main_result' = Ok(dm_result.val.code)
        ELSE /\ main_result' = Err("Could not write")
             /\ UNCHANGED outputs
    /\ mpc' = "exit"
    /\ UNCHANGED <<libVars, cmd, solveVars, env_mergiraf, env_legacy, timeout, git, output,
                   spawned, dm_result, workerVars, chan, rx_dropped>>

\* real_main, Merge: match do_merge(..), the arm Err(err)
merge_error ==
    /\ cmd = "merge" /\ mpc = "returned"
    /\ is_err(dm_result)
    /\ mpc' = "fallback"
    /\ UNCHANGED <<libVars, cmd, main_result, solveVars, env_mergiraf, env_legacy, timeout,
                   git, output, spawned, dm_result, outputs, workerVars, chan,
                   rx_dropped>>

\* The outcomes of running `git merge-file`: the process cannot be spawned
\* or waited for, or it exits with the number of conflicts, or with 255
\* after an error of its own.
GitMergeFileOutcomes ==
    { Err("spawn failed") } \cup { Ok(n) : n \in (0..MaxConflicts) \cup { 255 } }

\* fallback_to_git_merge_file: -p (print on stdout) unless --git
fallback_destination(g) == IF g THEN "left_file" ELSE "stdout"

\* real_main, Merge: return fallback_to_git_merge_file(base, left, right, git, &settings)
merge_fallback ==
    /\ cmd = "merge" /\ mpc = "fallback"
    /\ \E r \in GitMergeFileOutcomes :
        /\ main_result' = r
        /\ outputs' = IF is_ok(r) /\ r.val /= 255
                      THEN Append(outputs, [dest |-> fallback_destination(git),
                                            from |-> "git merge-file",
                                            conflict_count |-> r.val])
                      ELSE outputs
    /\ mpc' = "exit"
    /\ UNCHANGED <<libVars, cmd, solveVars, env_mergiraf, env_legacy, timeout, git, output,
                   spawned, dm_result, workerVars, chan, rx_dropped>>

NextMerge ==
    \/ merge_start
    \/ worker_read
    \/ worker_merge
    \/ worker_send
    \/ do_merge_recv
    \/ do_merge_recv_timeout
    \/ merge_deliver
    \/ merge_error
    \/ merge_fallback

----------------------------------------------------------------------------
(* The program at rest: the state of its variables while a library function
   is exercised on its own *)

IdleProgram ==
    /\ cmd = "library"
    /\ main_result = None
    /\ IdleSolve
    /\ IdleMerge

----------------------------------------------------------------------------
(* FileCriterion::matches (src/file_criterion.rs) *)

\* the longest path of the model, in characters
MaxPathLen == 4

\* The paths of the model, over a letter in both cases, another letter, the
\* dot and the separator.
Paths == UNION { [1..n -> { "r", "R", "s", ".", "/" }] : n \in 0..MaxPathLen }

\* enum FileCriterion
ByExt(target_ext) == [kind |-> "ByExt", target |-> target_ext]
ByName(target_name) == [kind |-> "ByName", target |-> target_name]
Criteria ==
    { ByExt(<<"r">>), ByExt(<<"r", "s">>), ByName(<<"r">>), ByName(<<"r", "s">>) }

\* Option<T>
Some(v) == [tag |-> "Some", val |-> v]
is_some_and(o, f(_)) == o.tag = "Some" /\ f(o.val)

\* Path::components: the pieces between separators; empty pieces and "."
\* pieces are skipped (a path that is only "." has the CurDir component, which
\* is not a file name either)
RECURSIVE split_at_separators(_, _)
split_at_separators(p, piece) ==
    IF p = <<>> THEN <<piece>>
    ELSE IF Head(p) = "/"
         THEN <<piece>> \o split_at_separators(Tail(p), <<>>)
         ELSE split_at_separators(Tail(p), Append(piece, Head(p)))

components(p) ==
    SelectSeq(split_at_separators(p, <<>>), LAMBDA c : c /= <<>> /\ c /= <<".">>)

\* Path::file_name: the last component when it is a normal one
file_name(p) ==
    LET cs == components(p)
    IN  IF cs = <<>> \/ cs[Len(cs)] = <<".", ".">>
        THEN None
        ELSE Some(cs[Len(cs)])

\* the position of the last dot of a file name, 0 when it has none
RECURSIVE last_dot(_, _)
last_dot(name, i) ==
    IF i = 0 THEN 0
    ELSE IF name[i] = "." THEN i ELSE last_dot(name, i - 1)

\* Path::extension: what follows the last dot of the file name, when the file
\* name has a dot that is not its first character
extension(p) ==
    LET f == file_name(p)
    IN  IF f = None THEN None
        ELSE LET dot == last_dot(f.val, Len(f.val))
             IN  IF dot <= 1 THEN None
                 ELSE Some(SubSeq(f.val, dot + 1, Len(f.val)))

\* u8::to_ascii_lowercase on the characters of the model
to_ascii_lowercase(c) == IF c = "R" THEN "r" ELSE c

\* a comparison of the extension that looks at the case
eq_case_sensitive(a, b) == a = b

\* OsStr::eq_ignore_ascii_case
eq_ignore_ascii_case(a, b) ==
    /\ Len(a) = Len(b)
    /\ \A i \in 1..Len(a) : to_ascii_lowercase(a[i]) = to_ascii_lowercase(b[i])

\* FileCriterion::matches
matches(self, p) ==
    IF self.kind = "ByExt"
    THEN is_some_and(extension(p), LAMBDA e : eq_ignore_ascii_case(e, self.target))
    ELSE is_some_and(file_name(p), LAMBDA name : name = self.target)

InitCriterion ==
    /\ criterion \in Criteria
    /\ path \in Paths
    /\ matched = None

IdleCriterion ==
    /\ criterion = ByExt(<<"r">>)
    /\ path = <<>>
    /\ matched = None

\* a call of criterion.matches(path)
criterion_matches ==
    /\ cmd = "library" /\ criterion \in Criteria /\ matched = None
    /\ matched' = Some(matches(criterion, path))
    /\ UNCHANGED <<programVars, loopVars, detectionVars, lineVars, treeVars, criterion, path>>

----------------------------------------------------------------------------
(* Detection of duplicate signatures and syntax errors
   (src/line_based.rs, src/merge_result.rs) *)


\* pcs::Revision
Revisions == { "Base", "Left", "Right" }

\* The outcomes of parse(parser, contents, lang_profile, ..) as far as the
\* detection looks at them: an error, or a tree that has duplicate signatures
\* (lang_profile.has_signature_conflicts(ast.root())) or has none.
ParsedTrees == { Err("parse error"), Ok([has_signature_conflicts |-> FALSE]),
                 Ok([has_signature_conflicts |-> TRUE]) }

\* what line_based_merge can return
LineBasedResults ==
    { MergeResult("merged text", t[1], t[2], LINE_BASED_METHOD, FALSE) :
        t \in { u \in (0..MaxConflicts) \X (0..MaxMass) : u[1] = 0 => u[2] = 0 } }

\* the merge results detect_syntax_and_signature_errors can be called on
MergeResults ==
    UNION { StructuredResults(meth, "merged text") :
            meth \in { LINE_BASED_METHOD, STRUCTURED_RESOLUTION_METHOD,
                       FULLY_STRUCTURED_METHOD } }

\* MergeResult::from_parsed_merge
from_parsed_merge(parsed) ==
    MergeResult("merged text", parsed.conflict_count, parsed.conflict_mass,
                LINE_BASED_METHOD, TRUE)

\* the merge results built by from_parsed_merge
ResultsFromParsedMerge ==
    { from_parsed_merge(p.val) : p \in { q \in ParseOutcomes : is_ok(q) } }

\* a detection that takes a merged text that does not parse for an issue
line_based_merge_flagging_parse_errors(merged, lang_profile, tree_left) ==
    IF /\ merged.conflict_count = 0
       /\ lang_profile /= None
       /\ (is_err(tree_left) \/ tree_left.val.has_signature_conflicts)
    THEN [merged EXCEPT !.has_additional_issues = TRUE]
    ELSE merged

\* line_based_merge_with_duplicate_signature_detection, from the result of
\* line_based_merge on: the language profile and the parsed merged contents
line_based_merge_with_duplicate_signature_detection(merged, lang_profile, tree_left) ==
    IF /\ merged.conflict_count = 0
       /\ lang_profile /= None
       /\ is_ok(tree_left)
       /\ tree_left.val.has_signature_conflicts
    THEN [merged EXCEPT !.has_additional_issues = TRUE]
    ELSE merged

\* detect_syntax_and_signature_errors: the closure revision_has_issues
revision_has_issues(tree) ==
    IF is_ok(tree) THEN tree.val.has_signature_conflicts ELSE TRUE

\* a detection that counts the issues it finds as one more conflict
detect_marking_a_conflict(self, reparsed, trees) ==
    IF revision_has_issues(trees["Left"])
    THEN [self EXCEPT !.has_additional_issues = TRUE,
                      !.conflict_count = self.conflict_count + 1]
    ELSE [self EXCEPT !.has_additional_issues = FALSE]

\* a detection that keeps a flag that was already set
detect_keeping_the_flag(self, reparsed, trees) ==
    IF self.conflict_count = 0
    THEN [self EXCEPT !.has_additional_issues =
              self.has_additional_issues \/ revision_has_issues(trees["Left"])]
    ELSE IF is_err(reparsed)
         THEN Panicked
         ELSE [self EXCEPT !.has_additional_issues =
                    \/ self.has_additional_issues
                    \/ \E rev \in Revisions : revision_has_issues(trees[rev])]

\* MergeResult::detect_syntax_and_signature_errors.  reparsed is the outcome
\* of ParsedMerge::parse(&self.contents, settings); trees gives the parse of
\* self.contents (under "Left") when there is no conflict, and of each
\* reconstructed revision otherwise.
detect_syntax_and_signature_errors(self, reparsed, trees) ==
    IF self.conflict_count = 0
    THEN [self EXCEPT !.has_additional_issues = revision_has_issues(trees["Left"])]
    ELSE IF is_err(reparsed)
         THEN Panicked
         ELSE [self EXCEPT !.has_additional_issues =
                    \E rev \in Revisions : revision_has_issues(trees[rev])]

InitDetection ==
    /\ called \in { "line_based_merge_with_duplicate_signature_detection",
                    "detect_syntax_and_signature_errors" }
    /\ given \in IF called = "detect_syntax_and_signature_errors"
                 THEN MergeResults \cup ResultsFromParsedMerge ELSE LineBasedResults
    /\ observed = None
    /\ returned = None

IdleDetection ==
    /\ called = "none"
    /\ given = None
    /\ observed = None
    /\ returned = None

\* the second half of line_based_merge_with_duplicate_signature_detection
line_based_detection ==
    /\ cmd = "library" /\ returned = None
    /\ called = "line_based_merge_with_duplicate_signature_detection"
    /\ \E lang_profile \in { None, Some("Python") }, tree_left \in ParsedTrees :
        /\ returned' = line_based_merge_with_duplicate_signature_detection(
                            given, lang_profile, tree_left)
        /\ observed' = [lang_profile |-> lang_profile, tree_left |-> tree_left]
    /\ UNCHANGED <<programVars, loopVars, criterionVars, lineVars, treeVars, called, given>>

\* a call of given.detect_syntax_and_signature_errors(..)
detection ==
    /\ cmd = "library" /\ returned = None
    /\ called = "detect_syntax_and_signature_errors"
    /\ \E reparsed \in { Ok("parsed merge"), Err("unparseable conflict markers") },
          trees \in [Revisions -> ParsedTrees] :
        /\ returned' = detect_syntax_and_signature_errors(given, reparsed, trees)
        /\ observed' = [reparsed |-> reparsed, trees |-> trees]
    /\ UNCHANGED <<programVars, loopVars, criterionVars, lineVars, treeVars, called, given>>

----------------------------------------------------------------------------
(* The line-based merge (src/line_based.rs) *)

\* the longest file contents of the model, in characters
MaxTextLen == 2

\* File contents: strings over two letters and the newline
Texts == UNION { [1..n -> { "a", "b", "\n" }] : n \in 0..MaxTextLen }

\* a with_final_newline that appends a newline to every string
with_one_more_newline(s) == s \o <<"\n">>

\* with_final_newline
with_final_newline(s) ==
    IF s /= <<>> /\ s[Len(s)] = "\n" THEN s ELSE s \o <<"\n">>

\* The chunks of a merged text: a resolved text, or a conflict with its
\* three sides.
Resolved(text) == [kind |-> "Resolved", text |-> text]
Conflict(l, b, r) == [kind |-> "Conflict", left |-> l, base |-> b, right |-> r]

\* merge_options.merge(base, left, right) of diffy_imara, diff3 on the whole
\* text: a side that did not change gives way to the other one, two equal
\* sides are kept, and two different changes are either combined in some text
\* (Ok) or marked as a conflict (Err).
diffy_merge(base, left, right) ==
    IF left = right THEN { Ok(<<Resolved(left)>>) }
    ELSE IF left = base THEN { Ok(<<Resolved(right)>>) }
    ELSE IF right = base THEN { Ok(<<Resolved(left)>>) }
    ELSE { Ok(<<Resolved(left \o right)>>), Ok(<<Resolved(right \o left)>>),
           Err(<<Conflict(left, base, right)>>) }

\* ParsedMerge::conflict_count, conflict_mass and render on the chunks
RECURSIVE conflict_count(_)
conflict_count(chunks) ==
    IF chunks = <<>> THEN 0
    ELSE (IF Head(chunks).kind = "Conflict" THEN 1 ELSE 0) + conflict_count(Tail(chunks))

RECURSIVE conflict_mass(_)
conflict_mass(chunks) ==
    IF chunks = <<>> THEN 0
    ELSE LET c == Head(chunks)
         IN  (IF c.kind = "Conflict" THEN Len(c.left) + Len(c.base) + Len(c.right) ELSE 0)
             + conflict_mass(Tail(chunks))

RECURSIVE render(_)
render(chunks) ==
    IF chunks = <<>> THEN <<>>
    ELSE LET c == Head(chunks)
         IN  (IF c.kind = "Resolved" THEN c.text
              ELSE <<"<<<<<<<\n">> \o c.left \o <<"|||||||\n">> \o c.base
                   \o <<"=======\n">> \o c.right \o <<">>>>>>>\n">>)
             \o render(Tail(chunks))

\* line_based_merge, from what merge_options.merge returned
line_based_merge(merged) ==
    LET parsed == IF is_ok(merged) THEN merged.val ELSE merged.err
    IN  MergeResult(render(parsed), conflict_count(parsed), conflict_mass(parsed),
                    LINE_BASED_METHOD, FALSE)

InitLineBased ==
    /\ contents_base \in Texts
    /\ contents_left \in Texts
    /\ contents_right \in Texts
    /\ line_merged = None

IdleLineBased ==
    /\ contents_base = <<>>
    /\ contents_left = <<>>
    /\ contents_right = <<>>
    /\ line_merged = None

\* a call of line_based_merge_with_duplicate_signature_detection
line_based_merge_call ==
    /\ cmd = "library" /\ called = "none" /\ line_merged = None
    /\ \E merged \in diffy_merge(with_final_newline(contents_base),
                                 with_final_newline(contents_left),
                                 with_final_newline(contents_right)),
          lang_profile \in { None, Some("Python") }, tree_left \in ParsedTrees :
        line_merged' = line_based_merge_with_duplicate_signature_detection(
                           line_based_merge(merged), lang_profile, tree_left)
    /\ UNCHANGED <<programVars, loopVars, criterionVars, detectionVars, treeVars,
                   contents_base, contents_left, contents_right>>

----------------------------------------------------------------------------
(* The structured merge of three revisions of a parent node and its ordered
   children: class mapping, PCS triples, merged tree (spec.md, sections 3
   and 4.4 to 4.6), and the walks of the test-case minimizer over a tree
   (mgf_dev/src/minimize.rs) *)

\* the largest number of children of the parent in a revision
MaxChildren == 3

\* The children are leaves, told apart by their content; the children of one
\* revision are all different.
Elements == { 1, 2, 3, 9 }
ChildLists ==
    { s \in UNION { [1..n -> Elements] : n \in 0..MaxChildren } :
        \A i, j \in 1..Len(s) : s[i] = s[j] => i = j }

\* The children of Base: up to the names of the contents, they are 1, 2, ...
BaseLists == { s \in ChildLists : \A i \in 1..Len(s) : s[i] = i }

\* the parent node of each revision
Root == 0

\* RevNode: a node of a revision
RevNode(rev, node) == [rev |-> rev, node |-> node]

\* the children of the parent in a revision, and the nodes of a revision
children_of(rev) ==
    CASE rev = "Base" -> base_children
      [] rev = "Left" -> left_children
      [] rev = "Right" -> right_children

nodes_of(rev) == { Root } \cup { children_of(rev)[i] : i \in 1..Len(children_of(rev)) }

RevNodes == { RevNode(rev, n) : rev \in Revisions, n \in Elements \cup { Root } }
AllRevNodes == { rn \in RevNodes : rn.node \in nodes_of(rn.rev) }

\* Tree matcher: the matching of two revisions pairs the parents, and the
\* children with the same content (a content found once on each side)
matching(from, to) ==
    { <<RevNode(from, n), RevNode(to, n)>> : n \in nodes_of(from) \cap nodes_of(to) }

\* Class mapping: the classes are the transitive closure of the union of the
\* three matchings
classes ==
    LET m == matching("Base", "Left") \cup matching("Base", "Right")
             \cup matching("Left", "Right")
        pairs == m \cup { <<p[2], p[1]>> : p \in m }
        near(rn) == { rn } \cup { p[2] : p \in { q \in pairs : q[1] = rn } }
    IN  [rn \in AllRevNodes |-> UNION { near(x) : x \in near(rn) }]

\* the Leader of a class: the Base node if present, else Left, else Right
leader_of(class) ==
    CHOOSE rn \in class :
        \/ rn.rev = "Base"
        \/ rn.rev = "Left" /\ \A m \in class : m.rev /= "Base"
        \/ \A m \in class : m.rev = "Right"

\* create_class_mapping: the leader of every node of the three revisions
create_class_mapping == [rn \in AllRevNodes |-> leader_of(classes[rn])]

\* ClassMapping::map_to_leader
map_to_leader(rn) == class_mapping[rn]

\* ClassMapping::node_at_rev(leader, rev) -> Option<Node>
node_at_rev(leader, rev) ==
    LET members == { m \in DOMAIN class_mapping :
                        class_mapping[m] = leader /\ m.rev = rev }
    IN  IF members = {} THEN None ELSE Some((CHOOSE m \in members : TRUE).node)

\* ClassMapping::revision_set
revision_set(leader) ==
    { m.rev : m \in { x \in DOMAIN class_mapping : class_mapping[x] = leader } }

\* The sentinel of the first and of the last child slot
Bottom == [rev |-> "None", node |-> -1]

\* the children of a revision as leaders, in order
leaders_of(rev) ==
    [i \in 1..Len(children_of(rev)) |-> map_to_leader(RevNode(rev, children_of(rev)[i]))]

\* Build: the PCS triples of a revision, (p, bottom, c1), (p, c1, c2), ...,
\* (p, cn, bottom), with leaders substituted for nodes
pcs_of(rev) ==
    LET p == map_to_leader(RevNode(rev, Root))
        cs == leaders_of(rev)
        slot(i) == IF i = 0 \/ i > Len(cs) THEN Bottom ELSE cs[i]
    IN  { <<p, slot(i), slot(i + 1)>> : i \in 0..Len(cs) }

\* a merge that takes the triples of Left
merged_pcs_of_left(base, left, right) == left

\* a merge that forgets what Right added
merged_pcs_without_right(base, left, right) ==
    (((base \cap left \cap right) \cup (left \ base)) \ (base \ left)) \ (base \ right)

\* Change detection: the merged triple set
merged_pcs(base, left, right) ==
    ((((base \cap left \cap right)
       \cup (left \ base))
       \cup (right \ base))
       \ (base \ left))
       \ (base \ right)

merged_triples == merged_pcs(pcs_of("Base"), pcs_of("Left"), pcs_of("Right"))

\* the successors of a child (or of the first slot) under the parent
successors(cur) == { t[3] : t \in { u \in merged_triples : u[2] = cur } }

\* Conflict detection: the merged set is not a well-formed forest when some
\* leader has two different successors under the same parent, or two parents
has_conflict ==
    \/ \E t, u \in merged_triples : t[1] = u[1] /\ t[2] = u[2] /\ t[3] /= u[3]
    \/ \E t, u \in merged_triples :
        t[1] /= u[1] /\ t[2] = u[2] /\ t[2] /= Bottom

\* MergedTree
ExactTree(leader, revset) == [kind |-> "Exact", leader |-> leader, revset |-> revset]
MixedTree(leader, children) == [kind |-> "Mixed", leader |-> leader, children |-> children]

\* what follows cur in a sequence of leaders (all of it after the first slot)
after(seq, cur) ==
    IF cur = Bottom THEN seq
    ELSE IF \E i \in 1..Len(seq) : seq[i] = cur
         THEN SubSeq(seq, 1 + (CHOOSE i \in 1..Len(seq) : seq[i] = cur), Len(seq))
         ELSE <<>>

\* the part of a sequence that comes before a leader (all of it without it)
before(seq, stop) ==
    IF \E i \in 1..Len(seq) : seq[i] = stop
    THEN SubSeq(seq, 1, (CHOOSE i \in 1..Len(seq) : seq[i] = stop) - 1)
    ELSE seq

\* two sides that never meet again
never_rejoin(cur) == Bottom

\* where the two sides meet again after cur: the first child that follows cur
\* on both sides
rejoin(cur) ==
    LET l == after(leaders_of("Left"), cur)
        r == after(leaders_of("Right"), cur)
        common == { i \in 1..Len(l) : \E j \in 1..Len(r) : r[j] = l[i] }
    IN  IF common = {} THEN Bottom
        ELSE l[CHOOSE i \in common : \A k \in common : i <= k]

\* the conflict at the slot after cur: the competing sequences of Left and
\* Right, and the span of Base they replace
conflict_at(cur) ==
    Conflict(before(after(leaders_of("Left"), cur), rejoin(cur)),
             before(after(leaders_of("Base"), cur), rejoin(cur)),
             before(after(leaders_of("Right"), cur), rejoin(cur)))

\* a child of this revision
is_child(rev, x) == \E i \in 1..Len(leaders_of(rev)) : leaders_of(rev)[i] = x

\* a resolution of the slot that keeps the additions of Left only
left_additions_only(cur) ==
    SelectSeq(conflict_at(cur).left,
              LAMBDA x : is_child("Base", x) => is_child("Right", x))

\* Commutative parents: the competing sequences of a slot are both kept, in
\* the order of Left followed by what only Right has there; what a side
\* deleted is left out.
kept_commutatively(cur) ==
    LET c == conflict_at(cur)
        deleted(x) == is_child("Base", x) /\ ~(is_child("Left", x) /\ is_child("Right", x))
    IN  SelectSeq(c.left, LAMBDA x : ~deleted(x))
        \o SelectSeq(c.right,
                     LAMBDA x : ~deleted(x) /\ \A i \in 1..Len(c.left) : c.left[i] /= x)

\* The children of the merged parent, in the merged PCS order from the slot
\* after cur on.  A slot with several successors gives a Conflict, unless
\* the parent is commutative.
RECURSIVE ordered_children(_, _)
ordered_children(cur, visited) ==
    LET next == successors(cur)
        exact(x) == ExactTree(x, revision_set(x))
        continue(n, seen) ==
            IF n = Bottom \/ n \in seen THEN <<>>
            ELSE <<exact(n)>> \o ordered_children(n, seen \cup { n })
    IN  IF next = {} THEN <<>>
        ELSE IF Cardinality(next) = 1 THEN continue(CHOOSE n \in next : TRUE, visited)
        ELSE IF commutative
        THEN LET kept == SelectSeq(kept_commutatively(cur), LAMBDA x : x \notin visited)
             IN  [i \in 1..Len(kept) |-> exact(kept[i])]
                 \o continue(rejoin(cur),
                             visited \cup { kept[i] : i \in 1..Len(kept) })
        ELSE <<conflict_at(cur)>> \o continue(rejoin(cur), visited)

\* The merged children of the parent.  A conflict of the merged set that the
\* merged PCS order does not lead to makes the whole list of children one
\* Conflict.
merged_children ==
    LET ordered == ordered_children(Bottom, {})
    IN  IF has_conflict /\ ~commutative
           /\ \A i \in 1..Len(ordered) : ordered[i].kind /= "Conflict"
        THEN <<Conflict(leaders_of("Left"), leaders_of("Base"), leaders_of("Right"))>>
        ELSE ordered

\* the merged tree of the parent: an ExactTree when the three revisions are
\* the same, else a MixedTree of the merged children
structured_merge ==
    LET root == map_to_leader(RevNode("Base", Root))
    IN  IF base_children = left_children /\ base_children = right_children
        THEN ExactTree(root, Revisions)
        ELSE MixedTree(root, merged_children)

\* the children of a merged tree as contents, a conflict standing for itself
children_contents(tree) ==
    IF tree.kind = "Exact"
    THEN children_of(tree.leader.rev)
    ELSE [i \in 1..Len(tree.children) |->
            IF tree.children[i].kind = "Exact" THEN tree.children[i].leader.node
            ELSE tree.children[i]]

\* the number of conflicts of a merged tree
tree_conflict_count(tree) ==
    IF tree.kind = "Exact" THEN 0
    ELSE Cardinality({ i \in 1..Len(tree.children) : tree.children[i].kind = "Conflict" })

InitTrees ==
    /\ base_children \in BaseLists
    /\ left_children \in ChildLists
    /\ right_children \in ChildLists
    /\ commutative \in BOOLEAN
    /\ class_mapping = None
    /\ merged_tree = None
    /\ removed = None

IdleTrees ==
    /\ base_children = <<>>
    /\ left_children = <<>>
    /\ right_children = <<>>
    /\ commutative = FALSE
    /\ class_mapping = None
    /\ merged_tree = None
    /\ removed = None

\* generate_matchings and create_class_mapping on the three revisions
class_mapping_call ==
    /\ cmd = "library" /\ called = "none" /\ class_mapping = None
    /\ class_mapping' = create_class_mapping
    /\ UNCHANGED <<programVars, loopVars, criterionVars, detectionVars, lineVars,
                   base_children, left_children, right_children, commutative,
                   merged_tree, removed>>

\* the structured merge of the three revisions
structured_merge_call ==
    /\ cmd = "library" /\ class_mapping /= None /\ merged_tree = None
    /\ merged_tree' = [tree |-> structured_merge, triples |-> merged_triples,
                       conflict_count |-> tree_conflict_count(structured_merge)]
    /\ UNCHANGED <<programVars, loopVars, criterionVars, detectionVars, lineVars,
                   base_children, left_children, right_children, commutative,
                   class_mapping, removed>>

\* a remove_nodes_in_tree that looks the children up in Base
remove_nodes_looking_in_base(revision, nodes_to_delete) ==
    LET leaders == SelectSeq(leaders_of(revision), LAMBDA l : l \notin nodes_to_delete)
    IN  IF \E i \in 1..Len(leaders) : node_at_rev(leaders[i], "Base") = None
        THEN Panicked
        ELSE MixedTree(map_to_leader(RevNode(revision, Root)),
                       [i \in 1..Len(leaders) |-> ExactTree(leaders[i], { revision })])

\* remove_nodes_in_tree on the tree of a revision: the children are mapped to
\* their leaders, the deleted ones are left out and the others are looked up
\* again with node_at_rev(leader, revision).expect(..), each giving an
\* ExactTree since it is a leaf
remove_nodes_in_tree(revision, nodes_to_delete) ==
    LET leaders == SelectSeq(leaders_of(revision), LAMBDA l : l \notin nodes_to_delete)
        child(i) == node_at_rev(leaders[i], revision)
        leader == map_to_leader(RevNode(revision, Root))
    IN  IF \E i \in 1..Len(leaders) : child(i) = None
        THEN Panicked
        ELSE LET processed_children ==
                    [i \in 1..Len(leaders) |->
                        ExactTree(map_to_leader(RevNode(revision, child(i).val)),
                                  { revision })]
             IN  IF Len(processed_children) = Len(children_of(revision))
                 THEN ExactTree(leader, { revision })
                 ELSE MixedTree(leader, processed_children)

\* attempt_minimization_step: a child of one revision is picked, and its
\* leader is removed from the three trees
remove_nodes_call ==
    /\ cmd = "library" /\ class_mapping /= None /\ removed = None
    /\ \E rev \in Revisions :
        \E i \in 1..Len(children_of(rev)) :
            LET nodes_to_delete == { map_to_leader(RevNode(rev, children_of(rev)[i])) }
            IN  removed' = [nodes_to_delete |-> nodes_to_delete,
                            trees |-> [r \in Revisions |->
                                        remove_nodes_in_tree(r, nodes_to_delete)]]
    /\ UNCHANGED <<programVars, loopVars, criterionVars, detectionVars, lineVars,
                   base_children, left_children, right_children, commutative,
                   class_mapping, merged_tree>>

----------------------------------------------------------------------------
(* The main loop of minimize (mgf_dev/src/minimize.rs) *)

\* the largest --max-steps and --max-failures of the model
MaxSteps == 2
MaxFailures == 2

\* the directory of the test case given to minimize
TestCase == [dir |-> "test_case"]

\* a directory name that does not tell the attempts of a step apart
new_test_case_of_step(s, f) == [dir |-> "attempt", step |-> s, failures |-> 0]

\* attempts_dir.path().join(format!("{step}_{failures}"))
new_test_case(s, f) == [dir |-> "attempt", step |-> s, failures |-> f]

\* The ways a call of attempt_minimization_step goes: no node to delete was
\* found, the new contents of a revision do not parse or parse to another
\* tree, the testing script returned another exit code, or all went well.
AttemptOutcomes ==
    { "LostInTree", "SyntaxError", "InconsistentTree", "TestFailed", "Ok" }

\* attempt_minimization_step writes the three files in output_dir before it
\* runs the testing script
writes_files(outcome) == outcome \in { "TestFailed", "Ok" }

\* the directories created so far by fs::create_dir
created_dirs == { attempts[i].dir : i \in { j \in 1..Len(attempts) : attempts[j].written } }

\* a minimize that takes the directory of every attempt for its best
best_after_any(best, dir, outcome) == dir

\* current_best after an attempt: the arms Ok(()) and Err(failure)
best_after(best, dir, outcome) == IF outcome = "Ok" THEN dir ELSE best

InitLoop ==
    /\ max_steps \in -1..MaxSteps
    /\ max_failures \in -1..MaxFailures
    /\ lpc = "while"
    /\ step = 0
    /\ failures = 0
    /\ progress_made = TRUE
    /\ current_best = TestCase
    /\ attempts = <<>>
    /\ final_output = None

IdleLoop ==
    /\ max_steps = 0
    /\ max_failures = 0
    /\ lpc = "idle"
    /\ step = 0
    /\ failures = 0
    /\ progress_made = FALSE
    /\ current_best = TestCase
    /\ attempts = <<>>
    /\ final_output = None

\* minimize: while progress_made && step < max_steps, and the head of its body
minimize_while ==
    /\ cmd = "library" /\ lpc = "while"
    /\ IF progress_made /\ step < max_steps
       THEN /\ failures' = 0
            /\ progress_made' = FALSE
            /\ lpc' = "attempts"
       ELSE /\ lpc' = "save"
            /\ UNCHANGED <<failures, progress_made>>
    /\ UNCHANGED <<programVars, criterionVars, detectionVars, lineVars, treeVars,
                   max_steps, max_failures, step, current_best, attempts, final_output>>

\* minimize: one iteration of while failures < max_failures && !progress_made;
\* the fs::create_dir of the attempt panics when the directory exists
minimize_attempt ==
    /\ cmd = "library" /\ lpc = "attempts"
    /\ failures < max_failures /\ ~progress_made
    /\ \E outcome \in AttemptOutcomes :
        LET dir == new_test_case(step, failures) IN
        IF writes_files(outcome) /\ dir \in created_dirs
        THEN /\ lpc' = "panicked"
             /\ UNCHANGED <<failures, progress_made, current_best, attempts>>
        ELSE /\ attempts' = Append(attempts, [dir |-> dir, outcome |-> outcome,
                                              written |-> writes_files(outcome)])
             /\ current_best' = best_after(current_best, dir, outcome)
             /\ progress_made' = (outcome = "Ok")
             /\ failures' = IF outcome = "Ok" THEN failures ELSE failures + 1
             /\ UNCHANGED lpc
    /\ UNCHANGED <<programVars, criterionVars, detectionVars, lineVars, treeVars,
                   max_steps, max_failures, step, final_output>>

\* a minimize that goes on after a step without a successful attempt
minimize_step_end_and_retry ==
    /\ cmd = "library" /\ lpc = "attempts"
    /\ ~(failures < max_failures /\ ~progress_made)
    /\ step' = step + 1
    /\ progress_made' = TRUE
    /\ lpc' = "while"
    /\ UNCHANGED <<programVars, criterionVars, detectionVars, lineVars, treeVars,
                   max_steps, max_failures, failures, current_best, attempts,
                   final_output>>

\* minimize: the end of the inner loop, and step += 1
minimize_step_end ==
    /\ cmd = "library" /\ lpc = "attempts"
    /\ ~(failures < max_failures /\ ~progress_made)
    /\ step' = step + 1
    /\ lpc' = "while"
    /\ UNCHANGED <<programVars, criterionVars, detectionVars, lineVars, treeVars,
                   max_steps, max_failures, failures, progress_made, current_best,
                   attempts, final_output>>

\* minimize: rm -r final_output; cp -r current_best final_output
minimize_save ==
    /\ cmd = "library" /\ lpc = "save"
    /\ final_output' = current_best
    /\ lpc' = "done"
    /\ UNCHANGED <<programVars, criterionVars, detectionVars, lineVars, treeVars,
                   max_steps, max_failures, step, failures, progress_made,
                   current_best, attempts>>

NextLoop == minimize_while \/ minimize_attempt \/ minimize_step_end \/ minimize_save

----------------------------------------------------------------------------
(* One run of the program *)

IdleLib == IdleCriterion /\ IdleDetection /\ IdleLineBased /\ IdleTrees /\ IdleLoop

Init ==
    /\ main_result = None
    /\ cmd \in { "merge", "solve" }
    /\ IF cmd = "merge" THEN InitMerge /\ IdleSolve ELSE InitSolve /\ IdleMerge
    /\ IdleLib

Next == NextSolve \/ NextMerge

Spec == Init /\ [][Next]_vars

----------------------------------------------------------------------------
(* The library functions exercised on their own, on every input of the model *)

\* calls of FileCriterion::matches
InitCriterionOnly ==
    /\ IdleProgram /\ InitCriterion /\ IdleDetection /\ IdleLineBased /\ IdleTrees
    /\ IdleLoop

SpecCriterion == InitCriterionOnly /\ [][criterion_matches]_vars

\* calls of the two detections of duplicate signatures
InitDetectionOnly ==
    /\ IdleProgram /\ IdleCriterion /\ InitDetection /\ IdleLineBased /\ IdleTrees
    /\ IdleLoop

SpecDetection == InitDetectionOnly /\ [][line_based_detection \/ detection]_vars

\* calls of line_based_merge_with_duplicate_signature_detection on three texts
InitLineBasedOnly ==
    /\ IdleProgram /\ IdleCriterion /\ IdleDetection /\ InitLineBased /\ IdleTrees
    /\ IdleLoop

SpecLineBased == InitLineBasedOnly /\ [][line_based_merge_call]_vars

\* structured merges of three revisions of a parent and its children
InitStructuredOnly ==
    /\ IdleProgram /\ IdleCriterion /\ IdleDetection /\ IdleLineBased /\ InitTrees
    /\ IdleLoop

SpecStructured == InitStructuredOnly /\ [][class_mapping_call \/ structured_merge_call]_vars

\* runs of the main loop of minimize; an attempt that was started returns,
\* and the loop goes on as long as it can
InitLoopOnly ==
    /\ IdleProgram /\ IdleCriterion /\ IdleDetection /\ IdleLineBased /\ IdleTrees
    /\ InitLoop

SpecMinimizeLoop == InitLoopOnly /\ [][NextLoop]_vars /\ WF_vars(NextLoop)

\* the class mapping of three revisions and the removal of a node from them
SpecMinimize == InitStructuredOnly /\ [][class_mapping_call \/ remove_nodes_call]_vars

----------------------------------------------------------------------------
(* Properties of the cascading resolution *)

\* resolve_merge_cascading has returned
CascadingReturned == cmd = "solve" /\ postprocessed /= None

\* select_best_solve has ranked a non-empty candidate vector
Ranked == cmd = "solve" /\ best_solve /= None

\* the position in `solves` at which a candidate was pushed
pushed_at(x) ==
    CHOOSE i \in 1..Len(solves) :
        solves[i] = x /\ \A j \in 1..(i - 1) : solves[j] /= x

\* candidates with the flag and the mass of x
same_rank(x) ==
    { i \in 1..Len(solves) :
        /\ solves[i].has_additional_issues = x.has_additional_issues
        /\ solves[i].conflict_mass = x.conflict_mass }

\* C1: the candidate select_best_solve ranks first is one of the candidates;
\* it has no additional issues whenever some candidate has none; no candidate
\* with the same has_additional_issues flag has a strictly smaller
\* conflict_mass; and among the candidates with its flag and its mass it is
\* the one pushed first.
C1_RankingOrder ==
    Ranked =>
        /\ \E i \in 1..Len(solves) : solves[i] = best_solve
        /\ (\E i \in 1..Len(solves) : ~solves[i].has_additional_issues)
              => ~best_solve.has_additional_issues
        /\ \A i \in 1..Len(solves) :
              solves[i].has_additional_issues = best_solve.has_additional_issues
                 => best_solve.conflict_mass <= solves[i].conflict_mass
        /\ \A i \in same_rank(best_solve) : pushed_at(best_solve) <= i

\* C1 witness: three candidates were ranked, one with additional issues has a
\* smaller mass than the chosen one, and another candidate ties with the
\* chosen one on flag and mass.
C1_Witness ==
    /\ Ranked
    /\ Len(solves) = 3
    /\ \E i \in 1..3 : /\ solves[i].has_additional_issues
                       /\ solves[i].conflict_mass < best_solve.conflict_mass
    /\ Cardinality(same_rank(best_solve)) = 2

\* a structured strategy produced a result: the resolution of the parsed
\* conflicts solved them all (and was returned at once), or a candidate
\* other than the rendering of the original conflicts was pushed
InPlaceSolvedAll == is_ok(postprocessed) /\ best_solve = None
OtherProduced ==
    \/ InPlaceSolvedAll
    \/ \E i \in 1..Len(solves) : solves[i].method /= FROM_PARSED_ORIGINAL

\* C2: resolve_merge_cascading returns the rendering of the original parsed
\* conflicts (method FROM_PARSED_ORIGINAL) only if no other strategy produced
\* a result.
C2_TrivialOnlyIfAlone ==
    (CascadingReturned /\ OtherProduced)
        => ~(is_ok(postprocessed) /\ postprocessed.val.method = FROM_PARSED_ORIGINAL)

\* C2 witness: another strategy produced a candidate, the rendering of the
\* original conflicts was ranked first, and resolve_merge_cascading returned.
C2_Witness ==
    /\ CascadingReturned
    /\ Ranked
    /\ OtherProduced
    /\ best_solve.method = FROM_PARSED_ORIGINAL

\* the result is one of a structured strategy
IsStructured(r) ==
    r.method \in { STRUCTURED_RESOLUTION_METHOD, FULLY_STRUCTURED_METHOD }

\* C3: conflict-mass monotonicity, for the runs in which the conflicts were
\* parsed (the line-based candidate exists): when the driver returns a
\* structured result its conflict_mass is at most the mass of the line-based
\* candidate, and in every other case the driver returns the line-based one.
C3_MassMonotonicity ==
    (CascadingReturned /\ is_ok(parsed_merge)) =>
        IF is_ok(postprocessed) /\ IsStructured(postprocessed.val)
        THEN postprocessed.val.conflict_mass <= parsed_merge.val.conflict_mass
        ELSE postprocessed = Ok(rendered_from_parsed(parsed_merge.val))

\* the first half of C3 alone: a structured result that is returned has at
\* most the mass of the line-based candidate
C3_StructuredHalf ==
    (CascadingReturned /\ is_ok(parsed_merge) /\ is_ok(postprocessed)
        /\ IsStructured(postprocessed.val))
        => postprocessed.val.conflict_mass <= parsed_merge.val.conflict_mass

\* C7: an unresolved conflict is never an error. When every candidate of the
\* cascade has conflicts left, one of them from a structured strategy,
\* resolve_merge_cascading returns Ok with conflict_count > 0; and when the
\* worker's merge leaves conflicts and its message is received, do_merge
\* returns Ok with the conflicts counted.
C7_ConflictsAreNotErrors ==
    /\ ( /\ CascadingReturned
         /\ \E i \in 1..Len(solves) : IsStructured(solves[i])
         /\ \A i \in 1..Len(solves) : solves[i].conflict_count > 0 )
       => (is_ok(postprocessed) /\ postprocessed.val.conflict_count > 0)
    /\ ( /\ cmd = "merge" /\ dm_result /= None /\ chan /= None
         /\ is_ok(chan) /\ chan.val.conflict_count > 0 )
       => (is_ok(dm_result) /\ dm_result.val.conflict_count > 0)

\* the half of C7 about do_merge alone
C7_DoMergeHalf ==
    ( /\ cmd = "merge" /\ dm_result /= None /\ chan /= None
      /\ is_ok(chan) /\ chan.val.conflict_count > 0 )
    => (is_ok(dm_result) /\ dm_result.val.conflict_count > 0)

\* the error of resolve_merge_cascading for a file of no supported language
UnsupportedLanguage(f) == Err(<<"Could not find a supported language for", f>>)

\* C8: when no language profile matches the file name, resolve_merge_cascading
\* attempts no strategy (the conflicts are not parsed, no structured merge
\* runs, no revision is extracted from Git, no candidate is produced or
\* ranked) and what it returns is the error naming the file.
C8_UnsupportedLanguage ==
    (cmd = "solve" /\ detect_from_filename(fname) = None) =>
        /\ ran = <<>>
        /\ parsed_merge = None
        /\ solves = <<>>
        /\ best_solve = None
        /\ spc \in { "read", "detect", "match", "exit" }
        /\ spc = "match" => CascadingReturned
        /\ CascadingReturned => postprocessed = UnsupportedLanguage(fname)

\* C8 witness: the solve command ran on a file of no supported language and
\* resolve_merge_cascading returned.
C8_Witness ==
    /\ cmd = "solve" /\ detect_from_filename(fname) = None
    /\ CascadingReturned
    /\ spc = "exit"

\* the revisions could not be extracted from Git
GitExtractionFailed == \E i \in 1..Len(ran) : ran[i] = "git_extract_failed"

\* C9: for a file of a supported language whose conflict markers parse,
\* resolve_merge_cascading returns Ok even when the original revisions cannot
\* be extracted from Git.
C9_ErrorsNotTerminal ==
    ( /\ CascadingReturned
      /\ detect_from_filename(fname) /= None
      /\ is_ok(parsed_merge) /\ parsed_merge.val.conflict_count = 1
      /\ GitExtractionFailed )
    => is_ok(postprocessed)

----------------------------------------------------------------------------
(* Properties of the merge command *)

\* do_merge has returned
DoMergeReturned == cmd = "merge" /\ dm_result /= None

\* the merge command left real_main through fallback_to_git_merge_file with
\* this outcome: the exit status of git merge-file, and its output (on
\* standard output, or in the left file with --git) as the only output
FallbackOutcome ==
    \E r \in GitMergeFileOutcomes :
        /\ main_result = r
        /\ outputs = IF is_ok(r) /\ r.val /= 255
                     THEN << [dest |-> fallback_destination(git),
                              from |-> "git merge-file",
                              conflict_count |-> r.val] >>
                     ELSE <<>>

\* C4: if the worker does not deliver a result within the deadline (the
\* channel is still empty when do_merge returns), then the timeout is not
\* zero, do_merge returns the error "structured merge took too long", and the
\* outcome of the command, output and exit code, is that of the git
\* merge-file fallback.
C4_TimeoutFallsBack ==
    (DoMergeReturned /\ chan = None) =>
        /\ timeout /= 0
        /\ dm_result = Err(TOO_LONG)
        /\ mpc \in { "returned", "fallback", "exit" }
        /\ mpc = "exit" => FallbackOutcome

\* C4 witness: the deadline passed while the worker was still running, and
\* the command ended with the output of git merge-file.
C4_Witness ==
    /\ DoMergeReturned /\ chan = None
    /\ wpc \in { "read_base", "read_left", "read_right", "merge", "send" }
    /\ mpc = "exit"
    /\ outputs /= <<>>

\* C5: one worker is spawned per call of do_merge; the command writes its
\* output at most once, from the worker's message received before the
\* deadline or from git merge-file, and exactly once unless a write or git
\* itself fails or the worker panics in the merge; a message sent after the
\* deadline is dropped (it never reaches the channel nor the output) and the
\* worker still finishes: the worker never panics in the send.
C5_OneSource ==
    cmd = "merge" =>
        /\ spawned <= 1
        /\ (wpc /= "unspawned") <=> (spawned = 1)
        /\ mpc \in { "wait", "returned" } => spawned = 1
        /\ Len(outputs) <= 1
        /\ \A i \in 1..Len(outputs) :
              /\ outputs[i].from \in { "worker", "git merge-file" }
              /\ outputs[i].from = "worker" =>
                    /\ is_ok(dm_result) /\ dm_result = chan /\ chan = w_res
                    /\ send_result = Ok("sent")
                    /\ outputs[i].conflict_count = w_res.val.conflict_count
              /\ outputs[i].from = "git merge-file" => ~is_ok(dm_result)
        /\ mpc = "exit" => (Len(outputs) = 1 \/ exit_code.code \in { -1, 255, 101 })
        /\ send_result = Err("SendError") =>
              /\ chan = None
              /\ dm_result = Err(TOO_LONG)
              /\ \A i \in 1..Len(outputs) : outputs[i].from /= "worker"
        /\ wpc = "panicked" => (send_result = None /\ w_res = None)
        /\ send_result /= None => wpc = "finished"

\* C5 witness: the worker sent its result after the deadline, the send
\* failed, and the command ended with one output.
C5_Witness ==
    /\ cmd = "merge"
    /\ send_result = Err("SendError")
    /\ wpc = "finished"
    /\ mpc = "exit"
    /\ Len(outputs) = 1

\* the output of the merge command came from the worker
FromWorker == outputs /= <<>> /\ outputs[1].from = "worker"

\* C6 (as claimed), on the paths where this program decides the exit code
\* (merge with the worker's result, solve): the exit code is 0 exactly when
\* the produced result has no conflict, 1 exactly when conflicts remain (for
\* solve, also when no result was produced and the conflicts stay in the
\* file), and negative only when an Err reached main.
C6_ExitCodesAsClaimed ==
    (exit_code /= None) =>
        /\ exit_code.code < 0 => is_err(main_result)
        /\ (cmd = "merge" /\ FromWorker) =>
              /\ (exit_code.code = 0) <=> (outputs[1].conflict_count = 0)
              /\ (exit_code.code = 1) <=> (outputs[1].conflict_count > 0)
        /\ (cmd = "solve" /\ is_ok(main_result) /\ CascadingReturned) =>
              /\ (exit_code.code = 0)
                    <=> (is_ok(postprocessed) /\ postprocessed.val.conflict_count = 0)
              /\ (exit_code.code = 1)
                    <=> (is_err(postprocessed) \/ postprocessed.val.conflict_count > 0)

\* C6 (amended): a negative exit code (-1) is produced exactly when an Err
\* reached main; merge with the worker's result exits with 0 exactly when
\* conflict_count = 0 and with 1 exactly when conflict_count > 0; solve exits
\* with 0 exactly when resolve_merge_cascading returned Ok (with a method
\* other than "original") and the result was printed or written, whether or
\* not conflicts remain in it, and with 1 when it returned Err.
C6_ExitCodes ==
    (exit_code /= None) =>
        /\ (exit_code.code < 0) <=> is_err(main_result)
        /\ (cmd = "merge" /\ FromWorker) =>
              /\ (exit_code.code = 0) <=> (outputs[1].conflict_count = 0)
              /\ (exit_code.code = 1) <=> (outputs[1].conflict_count > 0)
        /\ (cmd = "solve" /\ is_ok(main_result)) =>
              /\ CascadingReturned
              /\ (exit_code.code = 0)
                    <=> (is_ok(postprocessed) /\ postprocessed.val.method /= "original")
              /\ (exit_code.code = 1)
                    <=> (is_err(postprocessed) \/ postprocessed.val.method = "original")
              /\ exit_code.code = 0 =>
                    IF keep
                    THEN stdout_text = imitate_cr_lf_from_input(original_conflict_contents,
                                                                postprocessed.val.contents)
                    ELSE conflicts_file = postprocessed.val.contents

\* C6 witness: solve exited with 0 on a result in which conflicts remain.
C6_Witness ==
    /\ cmd = "solve"
    /\ exit_code /= None
    /\ exit_code.code = 0
    /\ is_ok(postprocessed)
    /\ postprocessed.val.conflict_count > 0

\* the merge command went to git merge-file without calling do_merge
DirectFallback ==
    /\ mpc \in { "fallback", "exit" }
    /\ spawned = 0 /\ wpc = "unspawned"
    /\ dm_result = None

\* C10 (as claimed): the merge command goes directly to the fallback, without
\* spawning a worker, exactly when `mergiraf` is "0" or MERGIRAF_DISABLE is
\* set, to any value.
C10_DisabledAsClaimed ==
    (cmd = "merge" /\ mpc /= "start") =>
        (DirectFallback <=> (env_mergiraf = "set:0" \/ env_legacy /= "unset"))

\* C10 (amended): the merge command goes directly to the fallback, without
\* spawning a worker, exactly when `mergiraf` is "0" or MERGIRAF_DISABLE is
\* set to a non-empty value that is valid Unicode; otherwise it spawns the
\* worker.
C10_Disabled ==
    (cmd = "merge" /\ mpc /= "start") =>
        /\ DirectFallback
              <=> (env_mergiraf = "set:0" \/ env_legacy \in { "set:0", "set:1" })
        /\ ~DirectFallback => spawned = 1

\* C10 witness: the legacy variable alone disabled the merge, which ended in
\* the fallback.
C10_Witness ==
    /\ cmd = "merge" /\ mpc = "exit"
    /\ DirectFallback
    /\ env_mergiraf = "unset" /\ env_legacy = "set:1"

----------------------------------------------------------------------------
(* Properties of FileCriterion::matches *)

\* s in lower case
Lowered(s) == [i \in 1..Len(s) |-> IF s[i] = "R" THEN "r" ELSE s[i]]

\* what may follow the last component of a path: separators and "." pieces
OnlySeparators(t) ==
    /\ \A k \in 1..Len(t) : t[k] \in { "/", "." }
    /\ \A k \in 1..(Len(t) - 1) : ~(t[k] = "." /\ t[k + 1] = ".")

\* p[i..j] is the last component of p, and it is a normal one
LastComponentAt(p, i, j) ==
    /\ i <= j
    /\ \A k \in i..j : p[k] /= "/"
    /\ SubSeq(p, i, j) \notin { <<".">>, <<".", ".">> }
    /\ (i = 1 \/ p[i - 1] = "/")
    /\ (j = Len(p) \/ p[j + 1] = "/")
    /\ OnlySeparators(SubSeq(p, j + 1, Len(p)))

\* the last component of p is <stem>.<x> with a stem that is not empty, x
\* without a dot and equal to e up to the case of its letters
HasExtension(p, e) ==
    \E i, j \in 1..Len(p) :
        /\ LastComponentAt(p, i, j)
        /\ \E d \in (i + 1)..j :
            /\ p[d] = "."
            /\ \A k \in (d + 1)..j : p[k] /= "."
            /\ Lowered(SubSeq(p, d + 1, j)) = Lowered(e)

\* the last component of p is n
HasName(p, n) ==
    \E i, j \in 1..Len(p) : LastComponentAt(p, i, j) /\ SubSeq(p, i, j) = n

\* C11: ByExt(e) matches a path exactly when the last component of the path
\* has an extension equal to e up to ASCII case (a last component that is
\* just e, without a dot, does not match), and ByName(n) matches exactly when
\* the last component is n (n followed by an extension does not match).
C11_MatchesByExtOrName ==
    (cmd = "library" /\ criterion \in Criteria /\ matched /= None) =>
        /\ criterion.kind = "ByExt" =>
            /\ matched.val = HasExtension(path, criterion.target)
            /\ HasName(path, criterion.target) => ~matched.val
        /\ criterion.kind = "ByName" =>
            /\ matched.val = HasName(path, criterion.target)
            /\ HasName(path, criterion.target \o <<".", "s">>) => ~matched.val

\* ByExt("rs") was asked about "s.RS" and matched it
C11_Witness ==
    /\ cmd = "library"
    /\ criterion = ByExt(<<"r", "s">>)
    /\ path = <<"s", ".", "R", "s">>
    /\ matched = Some(TRUE)

----------------------------------------------------------------------------
(* Properties of the detection of duplicate signatures *)

\* C12: whatever the detection finds,
\* line_based_merge_with_duplicate_signature_detection and
\* detect_syntax_and_signature_errors return the merge result they were given
\* with the same contents, conflict_count, conflict_mass and method: at most
\* has_additional_issues differs.
C12_OnlyFlagsIssues ==
    (cmd = "library" /\ called /= "none" /\ returned \notin { None, Panicked }) =>
        /\ returned.contents = given.contents
        /\ returned.conflict_count = given.conflict_count
        /\ returned.conflict_mass = given.conflict_mass
        /\ returned.method = given.method

\* duplicate signatures were found in a merge without conflicts, and flagged
C12_Witness ==
    /\ cmd = "library"
    /\ called = "detect_syntax_and_signature_errors"
    /\ returned \notin { None, Panicked }
    /\ given.conflict_count = 0 /\ ~given.has_additional_issues
    /\ returned.has_additional_issues

----------------------------------------------------------------------------
(* Properties of the line-based merge *)

\* the three texts are one text X, and they were merged
MergedWithItself ==
    /\ cmd = "library" /\ line_merged /= None
    /\ contents_left = contents_base /\ contents_right = contents_base

EndsWithNewline(s) == s /= <<>> /\ s[Len(s)] = "\n"

----------------------------------------------------------------------------
(* Properties of the structured merge *)

Merged == cmd = "library" /\ merged_tree /= None

\* C14: when Left equals Base the children of the merged tree are those of
\* Right, and when Right equals Base they are those of Left, in both cases
\* without a conflict.
C14_LeftIdentity ==
    Merged =>
        /\ left_children = base_children =>
            /\ children_contents(merged_tree.tree) = right_children
            /\ merged_tree.conflict_count = 0
        /\ right_children = base_children =>
            /\ children_contents(merged_tree.tree) = left_children
            /\ merged_tree.conflict_count = 0

\* Left is Base, Right moved a child and added another, and they were merged
C14_Witness ==
    /\ Merged
    /\ base_children = <<1, 2>> /\ left_children = <<1, 2>>
    /\ right_children = <<2, 9, 1>>
    /\ children_contents(merged_tree.tree) = <<2, 9, 1>>

\* C15: the merged PCS set contains every triple present in Base, Left and
\* Right and every triple added by Left or by Right (in the descendant and
\* not in Base), and no triple of Base that Left or Right deleted (in Base
\* and not in that descendant).
C15_MergedTriples ==
    Merged =>
        LET base == pcs_of("Base")
            left == pcs_of("Left")
            right == pcs_of("Right")
        IN  /\ \A t \in base : (t \in left /\ t \in right) => t \in merged_tree.triples
            /\ \A t \in left : t \notin base => t \in merged_tree.triples
            /\ \A t \in right : t \notin base => t \in merged_tree.triples
            /\ \A t \in base :
                (t \notin left \/ t \notin right) => t \notin merged_tree.triples

\* Left added a child, Right deleted one, a triple is common to the three
C15_Witness ==
    /\ Merged
    /\ base_children = <<1, 2>>
    /\ left_children = <<1, 2, 9>>
    /\ right_children = <<1>>
    /\ \E t \in merged_tree.triples : t \in pcs_of("Base")
    /\ \E t \in pcs_of("Base") : t \notin merged_tree.triples


\* s with x inserted after its k-th element
inserted(s, k, x) == SubSeq(s, 1, k) \o <<x>> \o SubSeq(s, k + 1, Len(s))

\* Left added x and Right added y, another child, at the slot after the k-th
\* child of Base, and changed nothing else
SameSlotInsertion(k, x, y) ==
    /\ k \in 0..Len(base_children)
    /\ x /= y
    /\ \A i \in 1..Len(base_children) : base_children[i] \notin { x, y }
    /\ left_children = inserted(base_children, k, x)
    /\ right_children = inserted(base_children, k, y)

C18_CommutativeParents ==
    (Merged /\ commutative) =>
        \A k \in 0..MaxChildren, x, y \in Elements :
            SameSlotInsertion(k, x, y) =>
                /\ merged_tree.conflict_count = 0
                /\ children_contents(merged_tree.tree)
                      = inserted(inserted(base_children, k, x), k + 1, y)
                /\ { children_contents(merged_tree.tree)[i] : i \in (k + 1)..(k + 2) }
                      = { x, y }

\* Base [1,2], Left [1,9,2], Right [1,3,2] under a commutative parent
C18_Witness ==
    /\ Merged /\ commutative
    /\ base_children = <<1, 2>>
    /\ left_children = <<1, 9, 2>>
    /\ right_children = <<1, 3, 2>>
    /\ children_contents(merged_tree.tree) = <<1, 9, 3, 2>>

----------------------------------------------------------------------------
(* Properties of the class mapping *)

\* the members of the class of a leader in a revision
members_at(leader, rev) ==
    { m \in DOMAIN class_mapping : class_mapping[m] = leader /\ m.rev = rev }

----------------------------------------------------------------------------
(* Determinism *)

\* resolve_merge_cascading went through select_best_solve, and what it
\* returned is what select_best_solve gives for the candidates
SelectedFromCandidates ==
    (cmd = "solve" /\ best_solve /= None) =>
        /\ best_solve = ranked_first(solves)
        /\ postprocessed = select_best_solve(solves)

----------------------------------------------------------------------------
(* Properties of the files of the solve command *)

\* the solve command has exited after resolve_merge_cascading returned a
\* resolution
SolvedAndExited ==
    /\ cmd = "solve" /\ exit_code /= None
    /\ is_ok(postprocessed) /\ postprocessed.val.method /= "original"

\* C20: when the solve command has exited: with --keep the conflicts file is
\* as it was read and <file>.orig was not created, and a resolution was shown
\* on standard output; without --keep, after a resolution, the conflicts file
\* holds the merged contents and <file>.orig holds the contents the conflicts
\* file had; when resolve_merge_cascading returned an error, neither file was
\* written and the exit code is 1.
C20_SolveFiles ==
    (cmd = "solve" /\ exit_code /= None /\ postprocessed /= None) =>
        /\ keep =>
            /\ conflicts_file = original_conflict_contents
            /\ orig_file = "absent"
            /\ SolvedAndExited =>
                  normalize_to_lf(stdout_text) = postprocessed.val.contents
        /\ (~keep /\ SolvedAndExited) =>
            /\ conflicts_file = postprocessed.val.contents
            /\ orig_file = original_conflict_contents
        /\ is_err(postprocessed) =>
            /\ conflicts_file = original_conflict_contents
            /\ orig_file = "absent"
            /\ exit_code.code = 1


----------------------------------------------------------------------------
(* Properties of the wait of do_merge *)

\* C21: with a timeout of 0 do_merge leaves its wait only when the worker's
\* message is in the channel (or the channel is disconnected), whatever the
\* time the worker takes; what it returns is the worker's result, never the
\* error of an elapsed deadline, and git merge-file is then run only on an
\* error of the worker itself.
C21_NoTimeLimit ==
    (cmd = "merge" /\ timeout = 0) =>
        /\ dm_result /= Err(TOO_LONG)
        /\ (mpc /= "wait" /\ spawned = 1) => (chan /= None \/ disconnected)
        /\ dm_result /= None => (w_res /= None /\ dm_result = w_res /\ chan = w_res)
        /\ \A i \in 1..Len(outputs) :
            outputs[i].from = "git merge-file" =>
                (mergiraf_disabled(env_mergiraf, env_legacy) \/ is_err(w_res))

\* with a timeout of 0 the worker's result was received and written
C21_Witness ==
    /\ cmd = "merge" /\ timeout = 0
    /\ is_ok(dm_result) /\ dm_result = w_res
    /\ Len(outputs) = 1 /\ outputs[1].from = "worker"


----------------------------------------------------------------------------
(* Properties of the order of the strategies *)

\* s is the beginning of q
is_prefix(s, q) == Len(s) <= Len(q) /\ s = SubSeq(q, 1, Len(s))

\* the orders in which the steps of resolve_merge_cascading can run
CascadeOrders ==
    { <<"parse", "resolve", "render", g>> : g \in { "git_merge", "git_extract_failed" } }
    \cup { <<"parse", g>> : g \in { "git_merge", "git_extract_failed" } }

\* the extraction of the revisions from Git was attempted
GitAttempted == \E i \in 1..Len(ran) : ran[i] \in { "git_merge", "git_extract_failed" }

\* C22: the strategies of resolve_merge_cascading run in one order: the
\* structured resolution of the parsed conflicts, the rendering of the
\* original conflicts, the structured merge of the revisions extracted from
\* Git; an in-place resolution without conflicts is returned at once, whatever
\* its has_additional_issues flag: it is never made a candidate, nothing is
\* ranked, and the extraction from Git is not attempted.
C22_CascadeOrder ==
    cmd = "solve" =>
        /\ \E q \in CascadeOrders : is_prefix(ran, q)
        /\ \A i \in 1..Len(solves) :
            solves[i].method = STRUCTURED_RESOLUTION_METHOD => solves[i].conflict_count > 0
        /\ (CascadingReturned /\ InPlaceSolvedAll) =>
            /\ ran = <<"parse", "resolve">>
            /\ solves = <<>>
            /\ postprocessed.val.method = STRUCTURED_RESOLUTION_METHOD
            /\ postprocessed.val.conflict_count = 0
        /\ GitAttempted =>
            ~(is_ok(postprocessed) /\ postprocessed.val.method = STRUCTURED_RESOLUTION_METHOD
              /\ postprocessed.val.conflict_count = 0)
        /\ (spc \in { "match", "write_orig", "exit" } /\ ~GitAttempted /\ CascadingReturned) =>
            (is_err(postprocessed) \/ InPlaceSolvedAll)

\* the in-place resolution left no conflict but has additional issues, and
\* was returned without the other strategies being run
C22_Witness ==
    /\ CascadingReturned /\ InPlaceSolvedAll
    /\ postprocessed.val.has_additional_issues
    /\ postprocessed.val.conflict_count = 0
    /\ ran = <<"parse", "resolve">>
    /\ exit_code /= None


----------------------------------------------------------------------------
(* Properties of what select_best_solve returns *)

\* select_best_solve was called and has returned
Selected == cmd = "solve" /\ GitAttempted /\ spc /= "select"

----------------------------------------------------------------------------
(* Properties of the one-shot channel of do_merge *)

\* C24: the worker of do_merge sends one message on every path before it
\* drops the sender: it never ends without having sent, the receiver never
\* sees the channel disconnected, and the main thread never panics in its
\* wait.
C24_AlwaysOneMessage ==
    cmd = "merge" =>
        /\ wpc /= "panicked"
        /\ wpc = "finished" => send_result /= None
        /\ mpc = "wait" => ~disconnected
        /\ main_result /= Panicked


----------------------------------------------------------------------------
(* Properties of the destination of the merge command's output *)

\* C25: the merge command writes its result to one destination, the same on
\* every path: the file of --output when it is given, else the left file
\* with --git, else standard output; also when the result is the one of git
\* merge-file.
C25_OneDestination ==
    cmd = "merge" =>
        /\ Len(outputs) <= 1
        /\ \A i \in 1..Len(outputs) : outputs[i].dest = destination(output, git)


----------------------------------------------------------------------------
(* Properties of the has_additional_issues flag *)

\* a call of line_based_merge_with_duplicate_signature_detection has returned
LineBasedDetected ==
    /\ cmd = "library" /\ returned /= None
    /\ called = "line_based_merge_with_duplicate_signature_detection"

\* C26: line_based_merge_with_duplicate_signature_detection returns
\* has_additional_issues = true exactly when the line-based merge has no
\* conflict, a language profile was given, the merged contents parse and the
\* tree has signature conflicts; the method is always LINE_BASED_METHOD.
C26_LineBasedFlag ==
    LineBasedDetected =>
        /\ returned.has_additional_issues <=>
              /\ given.conflict_count = 0
              /\ observed.lang_profile /= None
              /\ is_ok(observed.tree_left)
              /\ observed.tree_left.val.has_signature_conflicts
        /\ returned.method = LINE_BASED_METHOD

\* a merge without conflicts, in a known language, that does not parse: no
\* issue is flagged
C26_Witness ==
    /\ LineBasedDetected
    /\ given.conflict_count = 0
    /\ observed.lang_profile /= None
    /\ is_err(observed.tree_left)
    /\ ~returned.has_additional_issues

\* a call of detect_syntax_and_signature_errors has returned
SyntaxDetected ==
    /\ cmd = "library" /\ returned \notin { None, Panicked }
    /\ called = "detect_syntax_and_signature_errors"

\* the parse of these contents failed or gave a tree with signature conflicts
HasIssues(tree) == is_err(tree) \/ tree.val.has_signature_conflicts

\* C27: what detect_syntax_and_signature_errors returns has
\* has_additional_issues set, whatever it was before: without conflicts, to
\* whether the contents fail to parse or have signature conflicts; with
\* conflicts, to whether one of the Base, Left and Right revisions
\* reconstructed from the contents does.  A result of from_parsed_merge has
\* the method LINE_BASED_METHOD and has_additional_issues = true.
C27_DetectedFlag ==
    /\ SyntaxDetected =>
        returned.has_additional_issues =
            IF given.conflict_count = 0
            THEN HasIssues(observed.trees["Left"])
            ELSE \E rev \in Revisions : HasIssues(observed.trees[rev])
    /\ (cmd = "library" /\ called = "detect_syntax_and_signature_errors") =>
        \A p \in ParseOutcomes :
            is_ok(p) => /\ from_parsed_merge(p.val).has_additional_issues
                        /\ from_parsed_merge(p.val).method = LINE_BASED_METHOD
                        /\ from_parsed_merge(p.val) \in ResultsFromParsedMerge

\* a result of from_parsed_merge, flagged, came out of the detection without
\* the flag
C27_Witness ==
    /\ SyntaxDetected
    /\ given \in ResultsFromParsedMerge
    /\ given.has_additional_issues
    /\ given.conflict_count > 0
    /\ ~returned.has_additional_issues


----------------------------------------------------------------------------
(* Properties of the main loop of minimize *)

\* the attempts of a step that failed, and those that succeeded
failed_in(s) ==
    { i \in 1..Len(attempts) : attempts[i].dir.step = s /\ attempts[i].outcome /= "Ok" }
succeeded_in(s) ==
    { i \in 1..Len(attempts) : attempts[i].dir.step = s /\ attempts[i].outcome = "Ok" }

\* a bound that is not positive allows nothing
at_most(n) == IF n > 0 THEN n ELSE 0

\* minimize has left its main loop
LoopLeft == cmd = "library" /\ lpc \in { "save", "done" }

\* the bounds of the main loop of minimize
LoopBounds ==
    cmd = "library" =>
        /\ step <= at_most(max_steps)
        /\ \A i \in 1..Len(attempts) : attempts[i].dir.step < at_most(max_steps)
        /\ \A s \in 0..MaxSteps :
            /\ Cardinality(failed_in(s)) <= at_most(max_failures)
            /\ Cardinality(succeeded_in(s)) <= 1
        /\ LoopLeft =>
            /\ \A s \in 0..(step - 2) : succeeded_in(s) /= {}
            /\ step < max_steps => (step >= 1 /\ succeeded_in(step - 1) = {})
            /\ max_steps <= 0 => (step = 0 /\ attempts = <<>>)
            /\ (max_failures <= 0 /\ max_steps > 0) => (step = 1 /\ attempts = <<>>)

\* C28: the main loop of minimize terminates: it runs at most max_steps
\* steps, a step makes at most max_failures failed attempts and at most one
\* successful attempt, the loop stops at the first step without a successful
\* attempt (after one step when max_failures <= 0, without a step when
\* max_steps <= 0), and minimize reaches its end.
C28_LoopTerminates == [](LoopBounds) /\ <>(lpc = "done")

\* two steps were run, the first with a failed attempt before its success,
\* the second without a success
C28_Witness ==
    /\ LoopLeft /\ lpc = "done"
    /\ max_steps = MaxSteps /\ max_failures = MaxFailures
    /\ step = 2
    /\ Cardinality(failed_in(0)) = 1 /\ Cardinality(succeeded_in(0)) = 1
    /\ Cardinality(failed_in(1)) = MaxFailures /\ succeeded_in(1) = {}

\* the attempts that succeeded so far
Successes == { i \in 1..Len(attempts) : attempts[i].outcome = "Ok" }

C30_DistinctDirectories ==
    cmd = "library" =>
        /\ \A i, j \in 1..Len(attempts) : i /= j => attempts[i].dir /= attempts[j].dir
        /\ lpc /= "panicked"

\* a failed attempt wrote its files, and the next attempt of the step wrote
\* its own in another directory
C30_Witness ==
    /\ cmd = "library"
    /\ Len(attempts) >= 2
    /\ attempts[1].outcome = "TestFailed" /\ attempts[1].written
    /\ attempts[2].written
    /\ attempts[2].dir.step = attempts[1].dir.step
    /\ attempts[2].dir /= attempts[1].dir

====
